---- MODULE Spec2Model ----
(***************************************************************************)
(* Fertilizer dosage calculator: solution normalizer, anchor dose solver,  *)
(* forward projector and the PPS weekly plan, modelled from                *)
(* src/src/presets/pps.ts, src/src/presets/ei.ts and src/unnamed/part_000. *)
(*                                                                         *)
(* A TypeScript `number` is a binary floating-point value.  The model      *)
(* keeps the rounding of every `*` and `/`: a finite number is m * 2^e     *)
(* with an odd (or zero) integer m of at most Precision bits, and each     *)
(* operation rounds its exact result to nearest, ties to even.  The        *)
(* exponent is unbounded, so overflow and underflow are not modelled;      *)
(* division by zero yields Infinity or NaN as in the language.             *)
(***************************************************************************)
EXTENDS Integers, Sequences, FiniteSets, TLC

\* ------------------------------------------------------------------ bounds
\* Mantissa width of the modelled floating-point format (53 in the language).
Precision == 8
\* Largest dosesPerWeek handed to buildPpsPlan.
MaxDosesPerWeek == 9

\* ------------------------------------------------------------ number model
RECURSIVE Pow2(_)
Pow2(n) == IF n <= 0 THEN 1 ELSE 2 * Pow2(n - 1)

Abs(x) == IF x < 0 THEN -x ELSE x

Sgn(x) == IF x < 0 THEN -1 ELSE 1

Fin(m, e) == [k |-> "fin", m |-> m, e |-> e]

NaN == [k |-> "nan", m |-> 0, e |-> 0]

Infinity(s) == [k |-> "inf", m |-> s, e |-> 0]

undefined == [k |-> "undef", m |-> 0, e |-> 0]

Zero == Fin(0, 0)

\* canonical form: the mantissa is odd, or the number is zero
RECURSIVE Canon(_, _)
Canon(m, e) ==
  IF m = 0 THEN Zero
  ELSE IF m % 2 = 0 THEN Canon(m \div 2, e + 1)
  ELSE Fin(m, e)

\* least j with floor(N / (D * 2^j)) < 2^Precision
RECURSIVE DownShift(_, _, _)
DownShift(N, D, j) ==
  IF N \div (D * Pow2(j)) < Pow2(Precision) THEN j ELSE DownShift(N, D, j + 1)

\* least j with floor(N * 2^j / D) >= 2^(Precision-1)
RECURSIVE UpShift(_, _, _)
UpShift(N, D, j) ==
  IF (N * Pow2(j)) \div D >= Pow2(Precision - 1) THEN j ELSE UpShift(N, D, j + 1)

\* s * (N / D) * 2^e rounded to Precision bits, nearest, ties to even
RoundRat(s, N, D, e) ==
  IF N = 0 THEN Zero
  ELSE LET dn  == DownShift(N, D, 0)
           up  == IF dn > 0 THEN 0 ELSE UpShift(N, D, 0)
           num == N * Pow2(up)
           den == D * Pow2(dn)
           q   == num \div den
           r   == num % den
           q1  == IF 2 * r > den \/ (2 * r = den /\ q % 2 = 1) THEN q + 1 ELSE q
       IN Canon(s * q1, e + dn - up)

\* a numeric literal n/d of the source, as the number the language reads
FromDecimal(n, d) == RoundRat(Sgn(n), Abs(n), d, 0)

FromInt(n) == FromDecimal(n, 1)

One == FromInt(1)

Two == FromInt(2)

Seven == FromInt(7)

Ten == FromInt(10)

Thousand == FromInt(1000)

IsFinite(x) == x.k = "fin"

\* a * b
FMul(a, b) ==
  IF a.k \in {"nan", "undef"} \/ b.k \in {"nan", "undef"} THEN NaN
  ELSE IF a.k = "inf" \/ b.k = "inf"
       THEN IF a.m = 0 \/ b.m = 0 THEN NaN ELSE Infinity(Sgn(a.m) * Sgn(b.m))
  ELSE RoundRat(Sgn(a.m) * Sgn(b.m), Abs(a.m) * Abs(b.m), 1, a.e + b.e)

\* a / b
FDiv(a, b) ==
  IF a.k \in {"nan", "undef"} \/ b.k \in {"nan", "undef"} THEN NaN
  ELSE IF a.k = "inf" THEN (IF b.k = "inf" THEN NaN ELSE Infinity(Sgn(a.m) * Sgn(b.m)))
  ELSE IF b.k = "inf" THEN Zero
  ELSE IF b.m = 0 THEN (IF a.m = 0 THEN NaN ELSE Infinity(Sgn(a.m)))
  ELSE RoundRat(Sgn(a.m) * Sgn(b.m), Abs(a.m), Abs(b.m), a.e - b.e)

\* number of bits of a positive integer
RECURSIVE BitLen(_)
BitLen(n) == IF n <= 0 THEN 0 ELSE 1 + BitLen(n \div 2)

\* exponent just above the leading bit of a finite non-zero number
Top(x) == x.e + BitLen(Abs(x.m))

\* a + b
FAdd(a, b) ==
  IF a.k \in {"nan", "undef"} \/ b.k \in {"nan", "undef"} THEN NaN
  ELSE IF a.k = "inf" THEN (IF b.k = "inf" /\ b.m # a.m THEN NaN ELSE a)
  ELSE IF b.k = "inf" THEN b
  ELSE IF a.m = 0 THEN b
  ELSE IF b.m = 0 THEN a
  ELSE IF Top(a) - Top(b) > Precision + 2 THEN a
  ELSE IF Top(b) - Top(a) > Precision + 2 THEN b
  ELSE LET e0 == IF a.e < b.e THEN a.e ELSE b.e
           S  == a.m * Pow2(a.e - e0) + b.m * Pow2(b.e - e0)
       IN RoundRat(Sgn(S), Abs(S), 1, e0)

\* -a
FNeg(a) == IF a.k \in {"fin", "inf"} THEN [a EXCEPT !.m = -a.m] ELSE a

\* a - b
FSub(a, b) == FAdd(a, FNeg(b))

\* the second argument unclamped
FMax_NoClamp(a, b) == b

\* Math.max(a, b)
FMax(a, b) ==
  IF a.k \in {"nan", "undef"} \/ b.k \in {"nan", "undef"} THEN NaN
  ELSE IF a.k = "inf" THEN (IF a.m > 0 THEN a ELSE b)
  ELSE IF b.k = "inf" THEN (IF b.m > 0 THEN b ELSE a)
  ELSE IF FSub(a, b).m < 0 THEN b ELSE a

\* x <= 0
LeqZero(x) == x.k \in {"fin", "inf"} /\ x.m <= 0

\* x < 0
LtZero(x) == x.k \in {"fin", "inf"} /\ x.m < 0

\* x > 0 (used by the properties only)
GtZero(x) == x.k \in {"fin", "inf"} /\ x.m > 0

\* Math.floor(x) of a finite number, as an integer
Floor(x) == IF x.e >= 0 THEN x.m * Pow2(x.e) ELSE x.m \div Pow2(-x.e)

\* Math.ceil(x) of a finite number, as an integer
Ceil(x) == -Floor(Fin(-x.m, x.e))

\* |a - b| <= K * 2^-Precision * |b| for finite a, b (a comparison of the
\* properties, exact in the integers)
WithinUlps(a, b, K) ==
  /\ IsFinite(a) /\ IsFinite(b)
  /\ IF a.m = 0 \/ b.m = 0 THEN a = b
     ELSE LET e0 == IF a.e < b.e THEN a.e ELSE b.e
          IN /\ a.e - e0 <= Precision + 2
             /\ b.e - e0 <= Precision + 2
             /\ LET A == a.m * Pow2(a.e - e0)
                    B == b.m * Pow2(b.e - e0)
                IN Abs(A - B) * Pow2(Precision) <= K * Abs(B)

\* ------------------------------------------------------------------- types
Nutrient == {"NO3", "PO4", "K", "Mg", "Fe", "Cu", "Mn", "Zn", "S"}

Throw(msg) == [st |-> "throw", error |-> msg]

Return(v) == [st |-> "ok", val |-> v]

NotCalled == [st |-> "none"]

\* statement sequencing: the statement is evaluated once (r is its result); a
\* throw ends the run, otherwise the statements that follow read the value
Bind(result, Rest(_)) ==
  CHOOSE out \in { IF r.st # "ok" THEN r ELSE Rest(r.val) : r \in {result} } : TRUE

ValidationErrors ==
  { "referenceTankGallons must be positive", "referenceDoseMl must be positive",
    "Tank size must be positive.", "Target ppm increase must be positive.",
    "Dose ml must be positive.", "tankGallons must be positive",
    "targetPpm must be >= 0", "doseMl must be >= 0",
    "Tank size must be positive", "Target ppm increase must be positive",
    "Concentration must be positive", "Mass must be positive",
    "Volume must be positive", "Grams must be positive",
    "Final volume must be positive",
    "EI macro target NO3 must be > 0 for anchor solving.",
    "EI micro target Fe must be > 0 for anchor solving." }

MissingDataErrors ==
  { "Normalized solution does not provide ppm data for anchor nutrient",
    "No ppm data for nutrient", "does not provide" }

DomainErrors == { "Unknown SolutionSpec kind" }

\* ----------------------------------------------------- solution normalizer
gallonsToLiters(gallons) == FMul(gallons, FromDecimal(378541, 100000))

litersToGallons(liters) == FDiv(liters, FromDecimal(378541, 100000))

DefinedKeys(map) == {n \in DOMAIN map : map[n] # undefined}

\* normalizeSolutionSpec without the division by the reference dose
normalizeSolutionSpec_NoDoseScale(spec) ==
  IF spec.kind = "ppm_per_reference_dose"
  THEN IF LeqZero(spec.referenceTankGallons)
       THEN Throw("referenceTankGallons must be positive")
       ELSE IF LeqZero(spec.referenceDoseMl)
       THEN Throw("referenceDoseMl must be positive")
       ELSE LET volumeScale == FDiv(Ten, spec.referenceTankGallons)
            IN Return([ppmPer10g |->
                 [n \in DefinedKeys(spec.ppmAtReference) |->
                    FMul(spec.ppmAtReference[n], volumeScale)]])
  ELSE IF spec.kind = "manual_ml_per_10g"
  THEN Return([ppmPer10g |-> << >>])
  ELSE Throw("Unknown SolutionSpec kind")

normalizeSolutionSpec(spec) ==
  IF spec.kind = "ppm_per_reference_dose"
  THEN IF LeqZero(spec.referenceTankGallons)
       THEN Throw("referenceTankGallons must be positive")
       ELSE IF LeqZero(spec.referenceDoseMl)
       THEN Throw("referenceDoseMl must be positive")
       ELSE LET volumeScale == FDiv(Ten, spec.referenceTankGallons)
                doseScale   == FDiv(One, spec.referenceDoseMl)
            IN Return([ppmPer10g |->
                 [n \in DefinedKeys(spec.ppmAtReference) |->
                    FMul(FMul(spec.ppmAtReference[n], volumeScale), doseScale)]])
  ELSE IF spec.kind = "manual_ml_per_10g"
  THEN Return([ppmPer10g |-> << >>])
  ELSE Throw("Unknown SolutionSpec kind")

\* x || 0
OrZero(x) == IF x.k \in {"undef", "nan"} \/ x = Zero THEN Zero ELSE x

\* the first definition of normalizeSolutionSpec in src/unnamed/part_000
normalizeSolutionSpecEarlier(spec) ==
  IF spec.kind = "ppm_per_reference_dose"
  THEN LET factor == FDiv(Ten, litersToGallons(
                        FMul(gallonsToLiters(spec.referenceTankGallons),
                             FDiv(spec.referenceDoseMl, Thousand))))
       IN Return([ppmPer10g |->
            [n \in DOMAIN spec.ppmAtReference |->
               FMul(OrZero(spec.ppmAtReference[n]), factor)]])
  ELSE IF spec.kind = "manual_ml_per_10g"
  THEN Return([ppmPer10g |-> << >>])
  ELSE Throw("Unknown SolutionSpec kind")

\* ------------------------------------------------------ anchor dose solver
ThrowFor(msg, n) == [st |-> "throw", error |-> msg, nutrient |-> n]

\* map[n] of a Partial<Record<...>>: undefined when the key is absent
Lookup(map, n) == IF n \in DOMAIN map THEN map[n] ELSE undefined

PPS_TARGETS_PER_DAY ==
  [ low       |-> [NO3 |-> FromDecimal(5, 10),  PO4 |-> FromDecimal(5, 100),
                   K   |-> FromDecimal(665, 1000), Mg |-> FromDecimal(5, 100),
                   Fe  |-> FromDecimal(25, 1000)],
    medium    |-> [NO3 |-> FromDecimal(10, 10), PO4 |-> FromDecimal(1, 10),
                   K   |-> FromDecimal(133, 100), Mg |-> FromDecimal(1, 10),
                   Fe  |-> FromDecimal(5, 100)],
    very_high |-> [NO3 |-> FromDecimal(20, 10), PO4 |-> FromDecimal(2, 10),
                   K   |-> FromDecimal(266, 100), Mg |-> FromDecimal(2, 10),
                   Fe  |-> FromDecimal(10, 100)] ]

PpsLevel == {"low", "medium", "very_high"}

\* solveMlPerDoseFromAnchor with doseMl = targetPpm / ppmPer10g, the tank
\* scale forgotten
solveMlPerDoseFromAnchor_NoTankScale(input) ==
  IF LeqZero(input.tankGallons) THEN Throw("Tank size must be positive.")
  ELSE IF LeqZero(input.targetPpmPerDose) THEN Throw("Target ppm increase must be positive.")
  ELSE LET ppmPer10g == Lookup(input.normalized.ppmPer10g, input.anchor)
       IN IF ppmPer10g = undefined \/ LeqZero(ppmPer10g)
          THEN ThrowFor("Normalized solution does not provide ppm data for anchor nutrient",
                        input.anchor)
          ELSE Return(FDiv(input.targetPpmPerDose, ppmPer10g))

solveMlPerDoseFromAnchor(input) ==
  IF LeqZero(input.tankGallons) THEN Throw("Tank size must be positive.")
  ELSE IF LeqZero(input.targetPpmPerDose) THEN Throw("Target ppm increase must be positive.")
  ELSE LET ppmPer10g == Lookup(input.normalized.ppmPer10g, input.anchor)
       IN IF ppmPer10g = undefined \/ LeqZero(ppmPer10g)
          THEN ThrowFor("Normalized solution does not provide ppm data for anchor nutrient",
                        input.anchor)
          ELSE Return(FDiv(FMul(input.targetPpmPerDose, FDiv(input.tankGallons, Ten)),
                           ppmPer10g))

\* impliedPpmFromDose dividing by the dose instead of multiplying
impliedPpmFromDose_PerDose(input) ==
  IF LeqZero(input.tankGallons) THEN Throw("Tank size must be positive.")
  ELSE IF LeqZero(input.doseMl) THEN Throw("Dose ml must be positive.")
  ELSE Return([n \in DefinedKeys(input.normalized.ppmPer10g) |->
                 FMul(FDiv(input.normalized.ppmPer10g[n], input.doseMl),
                      FDiv(Ten, input.tankGallons))])

impliedPpmFromDose(input) ==
  IF LeqZero(input.tankGallons) THEN Throw("Tank size must be positive.")
  ELSE IF LeqZero(input.doseMl) THEN Throw("Dose ml must be positive.")
  ELSE Return([n \in DefinedKeys(input.normalized.ppmPer10g) |->
                 FMul(FMul(input.normalized.ppmPer10g[n], input.doseMl),
                      FDiv(Ten, input.tankGallons))])

\* ppmFromDose with the tank scale inverted
ppmFromDose_InvertedTankScale(input) ==
  IF LeqZero(input.tankGallons) THEN Throw("tankGallons must be positive")
  ELSE IF LtZero(input.doseMl) THEN Throw("doseMl must be >= 0")
  ELSE LET tankScale == FDiv(input.tankGallons, Ten)
       IN Return([n \in DefinedKeys(input.normalized.ppmPer10g) |->
                    FMul(FMul(input.normalized.ppmPer10g[n], input.doseMl), tankScale)])

ppmFromDose(input) ==
  IF LeqZero(input.tankGallons) THEN Throw("tankGallons must be positive")
  ELSE IF LtZero(input.doseMl) THEN Throw("doseMl must be >= 0")
  ELSE LET tankScale == FDiv(Ten, input.tankGallons)
       IN Return([n \in DefinedKeys(input.normalized.ppmPer10g) |->
                    FMul(FMul(input.normalized.ppmPer10g[n], input.doseMl), tankScale)])

\* solveDoseMlForTargetPpm checking only that the anchor entry is defined
solveDoseMlForTargetPpm_UndefinedOnly(input) ==
  IF LeqZero(input.tankGallons) THEN Throw("tankGallons must be positive")
  ELSE IF LtZero(input.targetPpm) THEN Throw("targetPpm must be >= 0")
  ELSE LET ppmPer10g == Lookup(input.normalized.ppmPer10g, input.nutrient)
       IN IF ppmPer10g = undefined
          THEN ThrowFor("No ppm data for nutrient", input.nutrient)
          ELSE Return(FDiv(FMul(input.targetPpm, FDiv(input.tankGallons, Ten)), ppmPer10g))

solveDoseMlForTargetPpm(input) ==
  IF LeqZero(input.tankGallons) THEN Throw("tankGallons must be positive")
  ELSE IF LtZero(input.targetPpm) THEN Throw("targetPpm must be >= 0")
  ELSE LET ppmPer10g == Lookup(input.normalized.ppmPer10g, input.nutrient)
       IN IF ppmPer10g = undefined \/ LeqZero(ppmPer10g)
          THEN ThrowFor("No ppm data for nutrient", input.nutrient)
          ELSE Return(FDiv(FMul(input.targetPpm, FDiv(input.tankGallons, Ten)), ppmPer10g))

\* ---------------------------------------------------------------- PPS plan
\* Array.from({ length: dosesPerWeek }, (_, i) => Math.floor((i * 7) / dosesPerWeek))
\* daysOfWeek rounding up instead of down
daysOfWeek_Ceil(dosesPerWeek) ==
  [j \in 1..(IF dosesPerWeek > 0 THEN dosesPerWeek ELSE 0) |->
     Ceil(FDiv(FMul(FromInt(j - 1), Seven), FromInt(dosesPerWeek)))]

\* daysOfWeek spreading the doses over six days: floor(i * 6 / dosesPerWeek)
daysOfWeek_SixDaySpread(dosesPerWeek) ==
  [j \in 1..(IF dosesPerWeek > 0 THEN dosesPerWeek ELSE 0) |->
     Floor(FDiv(FMul(FromInt(j - 1), FromInt(6)), FromInt(dosesPerWeek)))]

daysOfWeek(dosesPerWeek) ==
  [j \in 1..(IF dosesPerWeek > 0 THEN dosesPerWeek ELSE 0) |->
     Floor(FDiv(FMul(FromInt(j - 1), Seven), FromInt(dosesPerWeek)))]

\* target ?? 0
OrElseZero(x) == IF x = undefined THEN Zero ELSE x

\* the per-day targets taken as per-dose targets, whatever the doses per week
scale_PerDay(dosesPerWeek) == FromInt(1)

\* const scale = 7 / input.dosesPerWeek
scale(dosesPerWeek) == FDiv(Seven, FromInt(dosesPerWeek))

buildPpsPlan(input) ==
  LET normalizedMacro == normalizeSolutionSpec(input.macroSolution)
      normalizedMicro == normalizeSolutionSpec(input.microSolution)
      no3TargetPerDose ==
        FMul(OrElseZero(Lookup(PPS_TARGETS_PER_DAY[input.ppsLevel], "NO3")),
             scale(input.dosesPerWeek))
      feTargetPerDose ==
        FMul(OrElseZero(Lookup(PPS_TARGETS_PER_DAY[input.ppsLevel], "Fe")),
             scale(input.dosesPerWeek))
      macroDoseMl == solveMlPerDoseFromAnchor(
        [tankGallons |-> input.tankGallons, normalized |-> normalizedMacro.val,
         targetPpmPerDose |-> no3TargetPerDose, anchor |-> "NO3"])
      microDoseMl == solveMlPerDoseFromAnchor(
        [tankGallons |-> input.tankGallons, normalized |-> normalizedMicro.val,
         targetPpmPerDose |-> feTargetPerDose, anchor |-> "Fe"])
      impliedMacroPpm == impliedPpmFromDose(
        [tankGallons |-> input.tankGallons, normalized |-> normalizedMacro.val,
         doseMl |-> macroDoseMl.val])
      impliedMicroPpm == impliedPpmFromDose(
        [tankGallons |-> input.tankGallons, normalized |-> normalizedMicro.val,
         doseMl |-> microDoseMl.val])
  IN IF normalizedMacro.st # "ok" THEN normalizedMacro
     ELSE IF normalizedMicro.st # "ok" THEN normalizedMicro
     ELSE IF macroDoseMl.st # "ok" THEN macroDoseMl
     ELSE IF microDoseMl.st # "ok" THEN microDoseMl
     ELSE IF impliedMacroPpm.st # "ok" THEN impliedMacroPpm
     ELSE IF impliedMicroPpm.st # "ok" THEN impliedMicroPpm
     ELSE Return([macroMlPerDose |-> macroDoseMl.val,
                  microMlPerDose |-> microDoseMl.val,
                  dosesPerWeek |-> input.dosesPerWeek,
                  daysOfWeek |-> daysOfWeek(input.dosesPerWeek),
                  impliedMacroPpm |-> impliedMacroPpm.val,
                  impliedMicroPpm |-> impliedMicroPpm.val])

\* ----------------------------------------------------------------- EI plan
\* the literals keep the digits that decide their value at Precision bits
EI_TARGETS_PER_DOSE ==
  [ standard |->
      [ macro |-> [NO3 |-> FromDecimal(6872, 1000), PO4 |-> FromDecimal(1535, 1000),
                   K   |-> FromDecimal(4011, 1000)],
        micro |-> [Fe |-> FromDecimal(2662, 10000), Cu |-> FromDecimal(243, 100000),
                   Mn |-> FromDecimal(4861, 100000), Zn |-> FromDecimal(9721, 1000000)] ] ]

EiLevel == {"standard"}

EiSchedule(macroDays, microDays, waterChangeDay) ==
  [macroDays |-> macroDays, microDays |-> microDays, waterChangeDay |-> waterChangeDay]

DEFAULT_EI_SCHEDULE == EiSchedule(<<1, 3, 5>>, <<2, 4, 6>>, 0)

\* input.schedule left out by the caller
NoSchedule == [absent |-> TRUE]

DoseEvent(d, kind, ml) == [dayOfWeek |-> d, kind |-> kind, ml |-> ml]

\* an event put before the events of its own day
InsertByDay_BeforeTies(sorted, ev) ==
  LET before == SelectSeq(sorted, LAMBDA x : x.dayOfWeek < ev.dayOfWeek)
      after  == SelectSeq(sorted, LAMBDA x : x.dayOfWeek >= ev.dayOfWeek)
  IN before \o <<ev>> \o after

\* one step of the stable sort: ev goes after every event that does not
\* compare greater, a.dayOfWeek - b.dayOfWeek <= 0
InsertByDay(sorted, ev) ==
  LET before == SelectSeq(sorted, LAMBDA x : x.dayOfWeek - ev.dayOfWeek <= 0)
      after  == SelectSeq(sorted, LAMBDA x : x.dayOfWeek - ev.dayOfWeek > 0)
  IN before \o <<ev>> \o after

\* events.sort((a, b) => a.dayOfWeek - b.dayOfWeek), a stable sort
RECURSIVE SortByDay(_)
SortByDay(events) ==
  IF events = << >> THEN << >>
  ELSE InsertByDay(SortByDay(SubSeq(events, 1, Len(events) - 1)), events[Len(events)])

buildEiEvents(input) ==
  LET macroEvents == [i \in 1..Len(input.schedule.macroDays) |->
                        DoseEvent(input.schedule.macroDays[i], "macro", input.macroMlPerDose)]
      microEvents == [i \in 1..Len(input.schedule.microDays) |->
                        DoseEvent(input.schedule.microDays[i], "micro", input.microMlPerDose)]
  IN SortByDay(macroEvents \o microEvents)

\* one solution of buildEiPlan: the dose and the implied ppm map, or a throw
EiDose(tankGallons, solution, target, anchor, message) ==
  IF solution.kind = "manual_ml_per_10g"
  THEN Return([ml |-> FMul(solution.mlPer10Gallons, FDiv(tankGallons, Ten)),
               implied |-> undefined])
  ELSE
    Bind(normalizeSolutionSpec(solution), LAMBDA normalizedSolution :
    Bind(Return(OrElseZero(target)), LAMBDA anchorTarget :
    IF LeqZero(anchorTarget) THEN Throw(message)
    ELSE
      Bind(solveDoseMlForTargetPpm(
             [tankGallons |-> tankGallons, normalized |-> normalizedSolution,
              targetPpm |-> anchorTarget, nutrient |-> anchor]), LAMBDA ml :
      Bind(ppmFromDose(
             [tankGallons |-> tankGallons, normalized |-> normalizedSolution,
              doseMl |-> ml]), LAMBDA implied :
      Return([ml |-> ml, implied |-> implied])))))

buildEiPlan(input) ==
  IF LeqZero(input.tankGallons) THEN Throw("Tank size must be positive")
  ELSE
    Bind(Return(IF input.schedule = NoSchedule THEN DEFAULT_EI_SCHEDULE
                ELSE input.schedule), LAMBDA schedule :
    Bind(Return(EI_TARGETS_PER_DOSE[input.level]), LAMBDA targets :
    Bind(EiDose(input.tankGallons, input.macroSolution,
                Lookup(targets.macro, "NO3"), "NO3",
                "EI macro target NO3 must be > 0 for anchor solving."), LAMBDA macro :
    Bind(EiDose(input.tankGallons, input.microSolution,
                Lookup(targets.micro, "Fe"), "Fe",
                "EI micro target Fe must be > 0 for anchor solving."), LAMBDA micro :
    Return([level |-> input.level,
            schedule |-> schedule,
            macroMlPerDose |-> macro.ml,
            microMlPerDose |-> micro.ml,
            events |-> buildEiEvents([schedule |-> schedule,
                                      macroMlPerDose |-> macro.ml,
                                      microMlPerDose |-> micro.ml]),
            impliedMacroPpmPerDose |-> macro.implied,
            impliedMicroPpmPerDose |-> micro.implied])))))

\* --------------------------------------------------------------- dry salts
Compound == {"KNO3", "KH2PO4", "K2SO4"}

FRACTION_BY_MASS ==
  [ KNO3   |-> [NO3 |-> FromDecimal(613, 1000), K |-> FromDecimal(387, 1000)],
    KH2PO4 |-> [PO4 |-> FromDecimal(698, 1000), K |-> FromDecimal(287, 1000)],
    K2SO4  |-> [K |-> FromDecimal(449, 1000)] ]

\* throw new Error(c + " does not provide " + n)
ThrowNoFraction(c, n) ==
  [st |-> "throw", error |-> "does not provide", compound |-> c, nutrient |-> n]

getFraction(c, n) ==
  LET f == Lookup(FRACTION_BY_MASS[c], n)
  IN IF f = undefined THEN ThrowNoFraction(c, n) ELSE Return(f)

nutrientMgNeeded(tankLiters, targetPpmIncrease) ==
  IF LeqZero(tankLiters) THEN Throw("Tank size must be positive")
  ELSE IF LeqZero(targetPpmIncrease) THEN Throw("Target ppm increase must be positive")
  ELSE Return(FMul(tankLiters, targetPpmIncrease))

compoundMgNeededForPpm(tankLiters, targetPpmIncrease, c, n) ==
  IF LeqZero(tankLiters) THEN Throw("Tank size must be positive")
  ELSE IF LeqZero(targetPpmIncrease) THEN Throw("Target ppm increase must be positive")
  ELSE Bind(nutrientMgNeeded(tankLiters, targetPpmIncrease), LAMBDA mgNutrient :
       Bind(getFraction(c, n), LAMBDA f :
       Return(FDiv(mgNutrient, f))))

\* doseMlFromMgAndConcentration of src/unnamed/part_003
doseMlFromMgAndConcentration(mgNeeded, mgPerMl) ==
  IF LeqZero(mgPerMl) THEN Throw("Concentration must be positive")
  ELSE IF LtZero(mgNeeded) THEN Throw("Mass must be positive")
  ELSE Return(FDiv(mgNeeded, mgPerMl))

\* doseMlFromMgAndConcentration of src/src/main.ts
doseMlFromMgAndConcentrationMain(mgNeeded, mgPerMl) ==
  IF LeqZero(mgPerMl) THEN Throw("Concentration must be positive")
  ELSE IF LeqZero(mgNeeded) THEN Throw("Mass must be positive")
  ELSE Return(FDiv(mgNeeded, mgPerMl))

mgCompoundPerMl(gramsInSolution, volumeMl) ==
  IF LeqZero(volumeMl) THEN Throw("Volume must be positive")
  ELSE IF LeqZero(gramsInSolution) THEN Throw("Mass must be positive")
  ELSE Return(FDiv(FMul(gramsInSolution, Thousand), volumeMl))

\* the whole compound mass counted as the nutrient
nutrientMgFromCompoundMg_WholeMass(c, n, mgCompound) == Return(mgCompound)

nutrientMgFromCompoundMg(c, n, mgCompound) ==
  Bind(getFraction(c, n), LAMBDA f : Return(FMul(mgCompound, f)))

makeStock(recipe) ==
  IF LeqZero(recipe.grams) THEN Throw("Grams must be positive")
  ELSE IF LeqZero(recipe.finalVolumeMl) THEN Throw("Final volume must be positive")
  ELSE LET perMl == FDiv(FMul(recipe.grams, Thousand), recipe.finalVolumeMl)
           fractions == FRACTION_BY_MASS[recipe.compound]
       IN Return([recipe |-> recipe,
                  nutrientMgPerMl |-> [n \in DOMAIN fractions |-> FMul(perMl, fractions[n])]])

\* lines 113-116 of part_003: the masses of the two compounds sized first
firstMasses(tankSizeLiters, no3Ppm, po4Ppm) ==
  Bind(IF no3Ppm = Zero THEN Return(Zero)
       ELSE compoundMgNeededForPpm(tankSizeLiters, no3Ppm, "KNO3", "NO3"),
       LAMBDA mgKNO3Needed :
  Bind(IF po4Ppm = Zero THEN Return(Zero)
       ELSE compoundMgNeededForPpm(tankSizeLiters, po4Ppm, "KH2PO4", "PO4"),
       LAMBDA mgKH2PO4Needed :
  Return([mgKNO3Needed |-> mgKNO3Needed, mgKH2PO4Needed |-> mgKH2PO4Needed])))

\* a / b of two values that may have thrown, a first
Quotient(a, b) == Bind(a, LAMBDA x : Bind(b, LAMBDA y : Return(FDiv(x, y))))

\* lines 114-123 of part_002: the same two masses, the division written inline
firstMassesInline(tankSizeLiters, no3Ppm, po4Ppm) ==
  Bind(IF no3Ppm = Zero THEN Return(Zero)
       ELSE Quotient(nutrientMgNeeded(tankSizeLiters, no3Ppm), getFraction("KNO3", "NO3")),
       LAMBDA mgKNO3Needed :
  Bind(IF po4Ppm = Zero THEN Return(Zero)
       ELSE Quotient(nutrientMgNeeded(tankSizeLiters, po4Ppm), getFraction("KH2PO4", "PO4")),
       LAMBDA mgKH2PO4Needed :
  Return([mgKNO3Needed |-> mgKNO3Needed, mgKH2PO4Needed |-> mgKH2PO4Needed])))

\* lines 119-121 of part_003, the same in part_002: the K the first two masses
\* supply, the K target mass and the deficit, after the statements in first
deficitOfK(first, tankSizeLiters, kPpm) ==
  Bind(first, LAMBDA masses :
  Bind(nutrientMgFromCompoundMg("KNO3", "K", masses.mgKNO3Needed), LAMBDA kFromKNO3 :
  Bind(nutrientMgFromCompoundMg("KH2PO4", "K", masses.mgKH2PO4Needed), LAMBDA kFromKH2PO4 :
  Bind(IF kPpm = Zero THEN Return(Zero)
       ELSE nutrientMgNeeded(tankSizeLiters, kPpm), LAMBDA mgKTarget :
  Return(masses @@
         [mgKAlready |-> FAdd(kFromKNO3, kFromKH2PO4),
          mgKTarget |-> mgKTarget,
          mgKDeficit |-> FMax(Zero, FSub(mgKTarget, FAdd(kFromKNO3, kFromKH2PO4)))])))))

\* line 123 of part_003, the same in part_002: the K2SO4 mass of the deficit
massOfK2SO4(balance) ==
  Bind(balance, LAMBDA masses :
  Bind(IF masses.mgKDeficit = Zero THEN Return(Zero)
       ELSE Quotient(Return(masses.mgKDeficit), getFraction("K2SO4", "K")),
       LAMBDA mgK2SO4Needed :
  Return(masses @@ [mgK2SO4Needed |-> mgK2SO4Needed])))

\* lines 131-133 of part_003: the concentrations of the three stocks
concentrations(input, sized) ==
  Bind(sized, LAMBDA masses :
  Bind(mgCompoundPerMl(input.stockRecipeKNO3.grams,
                       input.stockRecipeKNO3.finalVolumeMl), LAMBDA KNO3Concentration :
  Bind(mgCompoundPerMl(input.stockRecipeKH2PO4.grams,
                       input.stockRecipeKH2PO4.finalVolumeMl), LAMBDA KH2PO4Concentration :
  Bind(mgCompoundPerMl(input.stockRecipeK2SO4.grams,
                       input.stockRecipeK2SO4.finalVolumeMl), LAMBDA K2SO4Concentration :
  Return([masses |-> masses,
          KNO3Concentration |-> KNO3Concentration,
          KH2PO4Concentration |-> KH2PO4Concentration,
          K2SO4Concentration |-> K2SO4Concentration])))))

\* lines 136-138 of part_003: the three doses
doses(stocks) ==
  Bind(stocks, LAMBDA s :
  Bind(doseMlFromMgAndConcentration(s.masses.mgKNO3Needed, s.KNO3Concentration),
       LAMBDA doseMlKNO3 :
  Bind(doseMlFromMgAndConcentration(s.masses.mgKH2PO4Needed, s.KH2PO4Concentration),
       LAMBDA doseMlKH2PO4 :
  Bind(doseMlFromMgAndConcentration(s.masses.mgK2SO4Needed, s.K2SO4Concentration),
       LAMBDA doseMlK2SO4 :
  Return(s.masses @@
         [doseMlKNO3 |-> doseMlKNO3, doseMlKH2PO4 |-> doseMlKH2PO4,
          doseMlK2SO4 |-> doseMlK2SO4])))))

\* the dry-salt example of src/unnamed/part_003 (lines 79-138), its constants
\* (tank size, targets, stock recipes) taken as the user's input
dosingExample(input) ==
  LET tankSizeLiters == gallonsToLiters(input.tankSizeGallons)
      no3Ppm == OrElseZero(Lookup(input.targetsPpm, "NO3"))
      po4Ppm == OrElseZero(Lookup(input.targetsPpm, "PO4"))
      kPpm   == OrElseZero(Lookup(input.targetsPpm, "K"))
  IN doses(concentrations(input,
       massOfK2SO4(deficitOfK(firstMasses(tankSizeLiters, no3Ppm, po4Ppm),
                              tankSizeLiters, kPpm))))

\* with the stock made before the masses
withStock(stock, sized) ==
  Bind(stock, LAMBDA st : Bind(sized, LAMBDA masses : Return([stock |-> st] @@ masses)))

\* the masses example of src/unnamed/part_002 (lines 94-134): the stock is made
\* first, then the three compound masses are sized; no dose is computed
massesExample(input) ==
  LET tankSizeLiters == gallonsToLiters(input.tankSizeGallons)
      no3Ppm == OrElseZero(Lookup(input.targetsPpm, "NO3"))
      po4Ppm == OrElseZero(Lookup(input.targetsPpm, "PO4"))
      kPpm   == OrElseZero(Lookup(input.targetsPpm, "K"))
  IN withStock(makeStock(input.stockRecipe),
       massOfK2SO4(deficitOfK(firstMassesInline(tankSizeLiters, no3Ppm, po4Ppm),
                              tankSizeLiters, kPpm)))

\* the example of src/src/main.ts (lines 83-97): one compound sized for one
\* nutrient and dosed from an 80 mg/ml stock
mainExample(input) ==
  Bind(Return(gallonsToLiters(input.tankSizeGallons)), LAMBDA tankSizeLiters :
  Bind(compoundMgNeededForPpm(tankSizeLiters, input.targetPpmIncrease, input.c, input.n),
       LAMBDA mgCompoundNeeded :
  Bind(doseMlFromMgAndConcentrationMain(mgCompoundNeeded, FromInt(80)), LAMBDA mlDose :
  Bind(makeStock([compound |-> input.c, grams |-> FromInt(40),
                  finalVolumeMl |-> FromInt(500)]), LAMBDA testStock :
  Return([mgCompoundNeeded |-> mgCompoundNeeded, mlDose |-> mlDose,
          testStock |-> testStock])))))

\* ------------------------------------------------------------------ inputs
ReferenceDose(t, d, ppm) ==
  [kind |-> "ppm_per_reference_dose", referenceTankGallons |-> t,
   referenceDoseMl |-> d, ppmAtReference |-> ppm]

ManualRate(ml) == [kind |-> "manual_ml_per_10g", mlPer10Gallons |-> ml]

\* label data in the style of the quick test cases of pps.ts and ei.ts
PpmMaps ==
  { [NO3 |-> FromDecimal(2242, 1000), K |-> FromDecimal(2658, 1000)],
    [NO3 |-> undefined, Fe |-> FromDecimal(7, 4)],
    [NO3 |-> Zero, Fe |-> FromDecimal(76, 1000)] }

ReferenceTanks == {FromInt(0), FromInt(10), FromInt(20)}

ReferenceDoses == {FromInt(0), FromInt(2), FromInt(3)}

SolutionSpecs ==
  { ReferenceDose(t, d, ppm) : t \in ReferenceTanks, d \in ReferenceDoses, ppm \in PpmMaps }
  \cup { ManualRate(FromInt(2)), ManualRate(Zero), [kind |-> "unknown"] }

MicroSolutions ==
  { ReferenceDose(FromInt(10), FromInt(2), [Fe |-> FromDecimal(76, 1000)]),
    ManualRate(FromInt(2)), ManualRate(FromInt(-2)) }

TankSizes == {FromInt(-5), FromInt(0), FromInt(3), FromInt(10)}

TargetPpms == {FromInt(-1), FromInt(0), FromDecimal(1, 2), FromInt(3)}

DoseMls == {FromInt(-1), FromInt(0), FromInt(1)}

AnchorNutrients == {"NO3", "Fe"}

DryTankGallons == {FromInt(0), FromInt(10), FromInt(26)}

\* a target map names every nutrient; an absent target is undefined
DryTargetsPpm ==
  { [NO3 |-> no3, PO4 |-> po4, K |-> k, Fe |-> fe] :
      no3 \in {undefined, Zero, FromInt(5)},
      po4 \in {Zero, One, FromInt(-1)},
      k \in {Zero, Two, FromInt(20)},
      fe \in {undefined, FromDecimal(1, 10)} }

StockRecipe(c, g, v) == [compound |-> c, grams |-> FromInt(g), finalVolumeMl |-> FromInt(v)]

StockRecipes ==
  { [KNO3 |-> StockRecipe("KNO3", 40, 500), KH2PO4 |-> StockRecipe("KH2PO4", 15, 500),
     K2SO4 |-> StockRecipe("K2SO4", 55, 500)],
    [KNO3 |-> StockRecipe("KNO3", 40, 500), KH2PO4 |-> StockRecipe("KH2PO4", 15, 500),
     K2SO4 |-> StockRecipe("K2SO4", 55, 0)] }

KNO3Recipes == {StockRecipe("KNO3", 40, 500), StockRecipe("KNO3", 0, 500)}

CompoundMgs == {FromInt(-1), Zero, FromInt(800)}

Concentrations == {Zero, FromInt(80)}

\* schedules a caller passes: none, the default, unsorted lists with a shared
\* day and the water change day, days outside the week, a day listed twice
Schedules ==
  { NoSchedule,
    DEFAULT_EI_SCHEDULE,
    EiSchedule(<<3, 1>>, <<3, 1>>, 1),
    EiSchedule(<<7, 0>>, <<-1>>, 0),
    EiSchedule(<<5, 1, 5>>, <<4>>, 0),
    EiSchedule(<<2, 4>>, << >>, 6) }

DryPpms == {FromInt(-1), Zero, FromInt(5)}

CompoundNutrientPairs == {<<"KNO3", "NO3">>, <<"K2SO4", "K">>, <<"KNO3", "Fe">>}

\* ----------------------------------------------------------- state machine
VARIABLES spec, normalized, normalizedEarlier, solved, implied, plan, salts

vars == <<spec, normalized, normalizedEarlier, solved, implied, plan, salts>>

NoCall == [fn |-> "none"]

Init ==
  /\ spec \in SolutionSpecs
  /\ normalized = NotCalled
  /\ normalizedEarlier = NotCalled
  /\ solved = NoCall
  /\ implied = NoCall
  /\ plan = NoCall
  /\ salts = NoCall

Fresh ==
  /\ normalized.st = "none" /\ normalizedEarlier.st = "none"
  /\ plan.fn = "none" /\ salts.fn = "none"

\* const normalized = normalizeSolutionSpec(spec)
Normalize ==
  /\ Fresh
  /\ normalized' = normalizeSolutionSpec(spec)
  /\ UNCHANGED <<spec, normalizedEarlier, solved, implied, plan, salts>>

\* the superseded definition of part_000, which nothing else consumes
NormalizeEarlier ==
  /\ Fresh
  /\ normalizedEarlier' = normalizeSolutionSpecEarlier(spec)
  /\ UNCHANGED <<spec, normalized, solved, implied, plan, salts>>

SolvePps ==
  /\ normalized.st = "ok"
  /\ solved.fn = "none"
  /\ \E tank \in TankSizes, target \in TargetPpms, anchor \in AnchorNutrients :
       LET input == [tankGallons |-> tank, normalized |-> normalized.val,
                     targetPpmPerDose |-> target, anchor |-> anchor]
       IN solved' = [fn |-> "solveMlPerDoseFromAnchor", tankGallons |-> tank,
                     targetPpm |-> target, nutrient |-> anchor,
                     out |-> solveMlPerDoseFromAnchor(input)]
  /\ UNCHANGED <<spec, normalized, normalizedEarlier, implied, plan, salts>>

SolveEi ==
  /\ normalized.st = "ok"
  /\ solved.fn = "none"
  /\ \E tank \in TankSizes, target \in TargetPpms, anchor \in AnchorNutrients :
       LET input == [tankGallons |-> tank, normalized |-> normalized.val,
                     targetPpm |-> target, nutrient |-> anchor]
       IN solved' = [fn |-> "solveDoseMlForTargetPpm", tankGallons |-> tank,
                     targetPpm |-> target, nutrient |-> anchor,
                     out |-> solveDoseMlForTargetPpm(input)]
  /\ UNCHANGED <<spec, normalized, normalizedEarlier, implied, plan, salts>>

\* doses a caller projects: a manual dose, the reference dose of the label,
\* or the dose the solver just returned
DoseChoices ==
  DoseMls
  \cup (IF spec.kind = "ppm_per_reference_dose" THEN {spec.referenceDoseMl} ELSE {})
  \cup (IF solved.fn # "none" /\ solved.out.st = "ok" THEN {solved.out.val} ELSE {})

\* tanks a caller projects into: also the reference tank of the label
TankChoices ==
  TankSizes
  \cup (IF spec.kind = "ppm_per_reference_dose" THEN {spec.referenceTankGallons} ELSE {})

ImpliedPps ==
  /\ normalized.st = "ok"
  /\ implied.fn = "none"
  /\ \E tank \in TankChoices, dose \in DoseChoices :
       LET input == [tankGallons |-> tank, normalized |-> normalized.val, doseMl |-> dose]
       IN implied' = [fn |-> "impliedPpmFromDose", tankGallons |-> tank, doseMl |-> dose,
                      out |-> impliedPpmFromDose(input)]
  /\ UNCHANGED <<spec, normalized, normalizedEarlier, solved, plan, salts>>

ImpliedEi ==
  /\ normalized.st = "ok"
  /\ implied.fn = "none"
  /\ \E tank \in TankChoices, dose \in DoseChoices :
       LET input == [tankGallons |-> tank, normalized |-> normalized.val, doseMl |-> dose]
       IN implied' = [fn |-> "ppmFromDose", tankGallons |-> tank, doseMl |-> dose,
                      out |-> ppmFromDose(input)]
  /\ UNCHANGED <<spec, normalized, normalizedEarlier, solved, plan, salts>>

\* const plan = buildPpsPlan({ tankGallons, ppsLevel, macroSolution, microSolution, dosesPerWeek })
BuildPpsPlan ==
  /\ Fresh
  /\ \E tank \in TankSizes, level \in PpsLevel, micro \in MicroSolutions,
        n \in 0..MaxDosesPerWeek :
       LET input == [tankGallons |-> tank, ppsLevel |-> level, macroSolution |-> spec,
                     microSolution |-> micro, dosesPerWeek |-> n]
       IN plan' = [fn |-> "buildPpsPlan", input |-> input, out |-> buildPpsPlan(input)]
  /\ UNCHANGED <<spec, normalized, normalizedEarlier, solved, implied, salts>>

\* const plan = buildEiPlan({ tankGallons, level, macroSolution, microSolution, schedule })
BuildEiPlan ==
  /\ Fresh
  /\ \E tank \in TankSizes, level \in EiLevel, micro \in MicroSolutions,
        schedule \in Schedules :
       LET input == [tankGallons |-> tank, level |-> level, macroSolution |-> spec,
                     microSolution |-> micro, schedule |-> schedule]
       IN plan' = [fn |-> "buildEiPlan", input |-> input, out |-> buildEiPlan(input)]
  /\ UNCHANGED <<spec, normalized, normalizedEarlier, solved, implied, salts>>

\* the dry-salt example of part_003 run on the user's tank, targets and recipes
DosingExample ==
  /\ Fresh
  /\ \E tank \in DryTankGallons, targets \in DryTargetsPpm, recipes \in StockRecipes :
       LET input == [tankSizeGallons |-> tank, targetsPpm |-> targets,
                     stockRecipeKNO3 |-> recipes.KNO3,
                     stockRecipeKH2PO4 |-> recipes.KH2PO4,
                     stockRecipeK2SO4 |-> recipes.K2SO4]
       IN salts' = [fn |-> "part_003", input |-> input, out |-> dosingExample(input)]
  /\ UNCHANGED <<spec, normalized, normalizedEarlier, solved, implied, plan>>

\* the masses example of part_002
MassesExample ==
  /\ Fresh
  /\ \E tank \in DryTankGallons, targets \in DryTargetsPpm, recipe \in KNO3Recipes :
       LET input == [tankSizeGallons |-> tank, targetsPpm |-> targets,
                     stockRecipe |-> recipe]
       IN salts' = [fn |-> "part_002", input |-> input, out |-> massesExample(input)]
  /\ UNCHANGED <<spec, normalized, normalizedEarlier, solved, implied, plan>>

\* doseMlFromMgAndConcentration(mgNeeded, mgPerMl) of part_003 called on its own
DoseFromMass ==
  /\ Fresh
  /\ \E mgNeeded \in CompoundMgs, mgPerMl \in Concentrations :
       salts' = [fn |-> "part_003.doseMlFromMgAndConcentration",
                 input |-> [mgNeeded |-> mgNeeded, mgPerMl |-> mgPerMl],
                 out |-> doseMlFromMgAndConcentration(mgNeeded, mgPerMl)]
  /\ UNCHANGED <<spec, normalized, normalizedEarlier, solved, implied, plan>>

\* doseMlFromMgAndConcentration(mgNeeded, mgPerMl) of main.ts called on its own
DoseFromMassMain ==
  /\ Fresh
  /\ \E mgNeeded \in CompoundMgs, mgPerMl \in Concentrations :
       salts' = [fn |-> "main.doseMlFromMgAndConcentration",
                 input |-> [mgNeeded |-> mgNeeded, mgPerMl |-> mgPerMl],
                 out |-> doseMlFromMgAndConcentrationMain(mgNeeded, mgPerMl)]
  /\ UNCHANGED <<spec, normalized, normalizedEarlier, solved, implied, plan>>

\* the single-compound example of main.ts
MainExample ==
  /\ Fresh
  /\ \E tank \in DryTankGallons, target \in DryPpms, cn \in CompoundNutrientPairs :
       LET input == [tankSizeGallons |-> tank, targetPpmIncrease |-> target,
                     c |-> cn[1], n |-> cn[2]]
       IN salts' = [fn |-> "main", input |-> input, out |-> mainExample(input)]
  /\ UNCHANGED <<spec, normalized, normalizedEarlier, solved, implied, plan>>

Next ==
  \/ Normalize
  \/ NormalizeEarlier
  \/ SolvePps
  \/ SolveEi
  \/ ImpliedPps
  \/ ImpliedEi
  \/ BuildPpsPlan
  \/ BuildEiPlan
  \/ DosingExample
  \/ MassesExample
  \/ DoseFromMass
  \/ DoseFromMassMain
  \/ MainExample

Spec == Init /\ [][Next]_vars

\* ============================================================== properties
IsReference(sp) == sp.kind = "ppm_per_reference_dose"

PositiveReference(sp) ==
  IsReference(sp) /\ GtZero(sp.referenceTankGallons) /\ GtZero(sp.referenceDoseMl)

Threw(out, errors) == out.st = "throw" /\ out.error \in errors

\* the projector was applied to the normalized label at tank t with the
\* label's own reference dose, and returned
ProjectedReferenceDoseInto(t) ==
  /\ PositiveReference(spec)
  /\ normalized.st = "ok"
  /\ implied.fn # "none"
  /\ implied.tankGallons = t
  /\ implied.doseMl = spec.referenceDoseMl
  /\ implied.out.st = "ok"

\* every listed nutrient comes back with the ppm of the label, up to K
\* rounding units
ReproducesLabel(K) ==
  \A n \in DefinedKeys(spec.ppmAtReference) :
     /\ n \in DOMAIN implied.out.val
     /\ WithinUlps(implied.out.val[n], spec.ppmAtReference[n], K)

\* C1: dosing referenceDoseMl into a tank of referenceTankGallons, through the
\* normalized solution, returns the ppm listed in ppmAtReference for every
\* listed nutrient, whatever the (positive) reference tank is.  Equality is
\* taken up to 4 rounding units, which is weaker than the claim's "exactly".
C1_RoundTripAtReferencePoint ==
  ProjectedReferenceDoseInto(spec.referenceTankGallons) => ReproducesLabel(4)

\* C2 (as stated): for any positive reference tank and dose, the implied
\* concentration in a 10 gallon tank of the normalized label and a dose of
\* referenceDoseMl equals ppmAtReference for every listed nutrient (within
\* floating-point tolerance).
C2_RoundTripAtTenGallonsAnyLabel ==
  ProjectedReferenceDoseInto(Ten) => ReproducesLabel(4)

\* C2 (amended): the same round trip holds, within 4 rounding units, for the
\* labels whose referenceTankGallons is 10.
C2_RoundTripAtTenGallons ==
  (ProjectedReferenceDoseInto(Ten) /\ spec.referenceTankGallons = Ten)
     => ReproducesLabel(4)

C2_Witness ==
  /\ ProjectedReferenceDoseInto(Ten)
  /\ spec.referenceTankGallons = Ten
  /\ spec.referenceDoseMl = FromInt(3)
  /\ "Fe" \in DOMAIN implied.out.val
  /\ implied.out.val["Fe"] # spec.ppmAtReference["Fe"]

\* what the claims C3 and C4 say of one result of normalizing spec
MatchesNormalizeFormula(out) ==
  /\ PositiveReference(spec) =>
       /\ out.st = "ok"
       /\ DOMAIN out.val.ppmPer10g = DefinedKeys(spec.ppmAtReference)
       /\ \A n \in DOMAIN out.val.ppmPer10g :
            out.val.ppmPer10g[n] =
              FMul(FMul(spec.ppmAtReference[n], FDiv(Ten, spec.referenceTankGallons)),
                   FDiv(One, spec.referenceDoseMl))
  /\ spec.kind = "manual_ml_per_10g" =>
       out.st = "ok" /\ out.val.ppmPer10g = << >>

RejectsNonPositiveReference(out) ==
  /\ (IsReference(spec) /\ (LeqZero(spec.referenceTankGallons) \/ LeqZero(spec.referenceDoseMl)))
       => Threw(out, ValidationErrors)
  /\ out.st = "ok" => \A n \in DOMAIN out.val.ppmPer10g : IsFinite(out.val.ppmPer10g[n])

\* C3: normalizeSolutionSpec maps a positive reference-dose label to exactly its
\* defined nutrients, each with ppm * (10 / referenceTankGallons) *
\* (1 / referenceDoseMl), and a manual-rate label to the empty mapping; stated
\* of every definition of normalizeSolutionSpec in the repository.
C3_NormalizeFormula ==
  /\ normalized.st # "none" => MatchesNormalizeFormula(normalized)
  /\ normalizedEarlier.st # "none" => MatchesNormalizeFormula(normalizedEarlier)

\* the part of C3 that the definition used by pps.ts and ei.ts satisfies
C3_CurrentDefinitionOnly ==
  normalized.st # "none" => MatchesNormalizeFormula(normalized)

\* C4: normalizing a reference-dose label whose tank or dose is not strictly
\* positive fails with a validation error, and no returned concentration is
\* infinite or NaN; stated of every definition of normalizeSolutionSpec.
C4_NormalizeRejectsNonPositive ==
  /\ normalized.st # "none" => RejectsNonPositiveReference(normalized)
  /\ normalizedEarlier.st # "none" => RejectsNonPositiveReference(normalizedEarlier)

\* the part of C4 that the definition used by pps.ts and ei.ts satisfies
C4_CurrentDefinitionOnly ==
  normalized.st # "none" => RejectsNonPositiveReference(normalized)

\* the solver returned a dose for a positive tank and target, and the
\* projector was then applied to that dose in the same tank
SolvedThenProjected ==
  /\ solved.fn # "none" /\ implied.fn # "none"
  /\ solved.out.st = "ok"
  /\ GtZero(solved.tankGallons) /\ GtZero(solved.targetPpm)
  /\ implied.tankGallons = solved.tankGallons
  /\ implied.doseMl = solved.out.val

\* C5 (as stated): the solved dose, projected into the same tank, yields
\* exactly targetPpm for the anchor nutrient.
C5_InverseConsistencyExact ==
  SolvedThenProjected =>
    /\ implied.out.st = "ok"
    /\ solved.nutrient \in DOMAIN implied.out.val
    /\ implied.out.val[solved.nutrient] = solved.targetPpm

\* C5 (amended): the solved dose, projected into the same tank, yields
\* targetPpm for the anchor nutrient up to rounding: within 8 rounding units.
C5_InverseConsistency ==
  SolvedThenProjected =>
    /\ implied.out.st = "ok"
    /\ solved.nutrient \in DOMAIN implied.out.val
    /\ WithinUlps(implied.out.val[solved.nutrient], solved.targetPpm, 8)

C5_Witness ==
  /\ SolvedThenProjected
  /\ implied.out.st = "ok"
  /\ solved.tankGallons = FromInt(3)
  /\ implied.out.val[solved.nutrient] # solved.targetPpm

\* C6: both solvers fail whenever tank size <= 0 or target ppm <= 0; a target
\* of exactly zero is rejected and never produces a dose.  Stated for any
\* kind of failure, which is weaker than the claim's validation error.
C6_SolverRejectsNonPositive ==
  (solved.fn # "none" /\ (LeqZero(solved.tankGallons) \/ LeqZero(solved.targetPpm)))
     => solved.out.st = "throw"

\* the anchor has no entry, or an entry <= 0, in the normalized solution
AnchorMissing ==
  /\ solved.fn # "none"
  /\ LET c == Lookup(normalized.val.ppmPer10g, solved.nutrient)
     IN c = undefined \/ LeqZero(c)

\* C7 (as stated): the solver fails with a missing-data error whenever the
\* anchor has no positive entry in the normalized solution.
C7_MissingAnchorIsMissingData ==
  AnchorMissing => Threw(solved.out, MissingDataErrors)

\* C7 (amended): whenever the anchor has no positive entry the solver returns
\* no dose; the failure is the missing-data error when tank size and target
\* ppm are positive (otherwise a validation error may be raised first).  So
\* solving against a normalized manual-rate label always fails.
C7_MissingAnchorFails ==
  AnchorMissing =>
    /\ solved.out.st = "throw"
    /\ solved.out.error \in MissingDataErrors \cup ValidationErrors
    /\ (GtZero(solved.tankGallons) /\ GtZero(solved.targetPpm))
          => solved.out.error \in MissingDataErrors

C7_Witness ==
  /\ AnchorMissing
  /\ spec.kind = "manual_ml_per_10g"
  /\ GtZero(solved.tankGallons) /\ GtZero(solved.targetPpm)
  /\ Threw(solved.out, MissingDataErrors)

\* C8: for tank size > 0 and an accepted dose the implied map has exactly the
\* nutrients of the normalized solution, each with
\* ppmPer10g[n] * doseMl * (10 / tankGallons), whatever anchor sized the dose.
C8_ForwardProjection ==
  (implied.fn # "none" /\ GtZero(implied.tankGallons)) =>
    /\ GtZero(implied.doseMl) => implied.out.st = "ok"
    /\ implied.out.st = "ok" =>
         /\ DOMAIN implied.out.val = DefinedKeys(normalized.val.ppmPer10g)
         /\ \A n \in DOMAIN implied.out.val :
              implied.out.val[n] =
                FMul(FMul(normalized.val.ppmPer10g[n], implied.doseMl),
                     FDiv(Ten, implied.tankGallons))

C8_Witness ==
  /\ implied.fn = "ppmFromDose" /\ implied.out.st = "ok"
  /\ solved.fn # "none" /\ solved.out.st = "ok" /\ solved.nutrient = "Fe"
  /\ implied.doseMl = solved.out.val /\ GtZero(implied.doseMl)
  /\ implied.tankGallons = FromInt(3)
  /\ DOMAIN implied.out.val = {"NO3", "Fe"}

\* the projector that produced implied, applied to another dose
Reproject(dose) ==
  LET input == [tankGallons |-> implied.tankGallons, normalized |-> normalized.val,
                doseMl |-> dose]
  IN IF implied.fn = "ppmFromDose" THEN ppmFromDose(input) ELSE impliedPpmFromDose(input)

\* C9: for tank size > 0 and dose > 0, the implied concentration of 2*dose is,
\* for every nutrient, 2 times the implied concentration of dose.
C9_Linearity ==
  (implied.fn # "none" /\ GtZero(implied.tankGallons) /\ GtZero(implied.doseMl)) =>
    LET twice == Reproject(FMul(Two, implied.doseMl))
    IN /\ implied.out.st = "ok" /\ twice.st = "ok"
       /\ DOMAIN twice.val = DOMAIN implied.out.val
       /\ \A n \in DOMAIN twice.val : twice.val[n] = FMul(Two, implied.out.val[n])

C9_Witness ==
  /\ implied.fn = "impliedPpmFromDose" /\ implied.out.st = "ok"
  /\ implied.doseMl = FromInt(3) /\ implied.tankGallons = FromInt(3)
  /\ "NO3" \in DOMAIN implied.out.val /\ GtZero(implied.out.val["NO3"])

\* C10: for every positive integer dosesPerWeek (also above 7) the daysOfWeek
\* of the plan has exactly dosesPerWeek entries, each in 0..6, non-decreasing.
C10_ScheduleCardinality ==
  (plan.fn = "buildPpsPlan" /\ plan.out.st = "ok" /\ plan.input.dosesPerWeek >= 1) =>
    LET days == plan.out.val.daysOfWeek
    IN /\ Len(days) = plan.input.dosesPerWeek
       /\ \A i \in 1..Len(days) : days[i] \in 0..6
       /\ \A i \in 1..(Len(days) - 1) : days[i] <= days[i + 1]

C10_Witness ==
  /\ plan.fn = "buildPpsPlan" /\ plan.out.st = "ok"
  /\ plan.input.dosesPerWeek = 9
  /\ plan.out.val.daysOfWeek = <<0, 0, 1, 2, 3, 3, 4, 5, 6>>

\* ------------------------------------------------------------ dry salts
GeqZero(x) == x.k \in {"fin", "inf"} /\ x.m >= 0

\* the three example scripts
Examples == {"part_003", "part_002", "main"}

Balanced == salts.fn \in {"part_003", "part_002"} /\ salts.out.st = "ok"

\* the fields of a returned result that are masses or doses
MassesAndDoses(result) ==
  { result[f] : f \in DOMAIN result \ {"stock", "testStock", "mgKAlready", "mgKTarget"} }

\* C11: for a tank size > 0 and NO3, PO4 and K targets for which the dry-salt
\* balancer does not fail, every compound mass and every stock dose it returns
\* is >= 0, and so is the K deficit, also when KNO3 and KH2PO4 already supply
\* more K than the K target.
C11_DeficitNonNegativity ==
  (salts.fn \in Examples /\ salts.out.st = "ok" /\ GtZero(salts.input.tankSizeGallons))
    => \A x \in MassesAndDoses(salts.out.val) : GeqZero(x)

\* a run where the other two compounds already supply more K than the target
C11_Witness ==
  /\ Balanced
  /\ GtZero(salts.out.val.mgKTarget)
  /\ LtZero(FSub(salts.out.val.mgKTarget, salts.out.val.mgKAlready))
  /\ salts.out.val.mgKDeficit = Zero
  /\ salts.out.val.mgK2SO4Needed = Zero

\* the K2SO4 mass of the deficit formula, from the inputs of the run
DeficitFormula ==
  LET tankLiters == gallonsToLiters(salts.input.tankSizeGallons)
      no3Ppm == OrElseZero(salts.input.targetsPpm.NO3)
      po4Ppm == OrElseZero(salts.input.targetsPpm.PO4)
      kPpm   == OrElseZero(salts.input.targetsPpm.K)
      mgKNO3Needed   == FDiv(FMul(tankLiters, no3Ppm), FromDecimal(613, 1000))
      mgKH2PO4Needed == FDiv(FMul(tankLiters, po4Ppm), FromDecimal(698, 1000))
      alreadyProvided == FAdd(FMul(mgKNO3Needed, FromDecimal(387, 1000)),
                              FMul(mgKH2PO4Needed, FromDecimal(287, 1000)))
  IN FDiv(FMax(Zero, FSub(FMul(tankLiters, kPpm), alreadyProvided)),
          FromDecimal(449, 1000))

\* K delivered by the three compound masses of the run
TotalKDelivered ==
  FAdd(salts.out.val.mgKAlready,
       FMul(salts.out.val.mgK2SO4Needed, FromDecimal(449, 1000)))

\* a - b >= 0
Geq(a, b) == GeqZero(FSub(a, b))

\* C12 as stated: the K2SO4 mass is the deficit formula, the K delivered equals
\* the K target mass whenever the deficit is positive, and it never falls
\* below the K target mass.
C12_TotalKMeetsTarget ==
  Balanced =>
    /\ salts.out.val.mgK2SO4Needed = DeficitFormula
    /\ GtZero(salts.out.val.mgKDeficit) => TotalKDelivered = salts.out.val.mgKTarget
    /\ Geq(TotalKDelivered, salts.out.val.mgKTarget)

\* C12 (amended): the K2SO4 mass is the deficit formula; when the deficit is
\* positive the K delivered equals the K target mass up to the rounding of the
\* four operations between them, and when the deficit is zero the K delivered
\* is at least the K target mass.
C12_DeficitBalancing ==
  Balanced =>
    /\ salts.out.val.mgK2SO4Needed = DeficitFormula
    /\ GtZero(salts.out.val.mgKDeficit)
         => WithinUlps(TotalKDelivered, salts.out.val.mgKTarget, 4)
    /\ salts.out.val.mgKDeficit = Zero
         => Geq(TotalKDelivered, salts.out.val.mgKTarget)

\* a run with K from all three compounds and a positive deficit
C12_Witness ==
  /\ Balanced
  /\ GtZero(salts.out.val.mgKNO3Needed)
  /\ GtZero(salts.out.val.mgKH2PO4Needed)
  /\ GtZero(salts.out.val.mgKDeficit)
  /\ salts.out.val.mgK2SO4Needed = DeficitFormula

\* the dedicated compound of a nutrient, its mass and its dose in a result
Dedicated ==
  [NO3 |-> [mass |-> "mgKNO3Needed", dose |-> "doseMlKNO3"],
   PO4 |-> [mass |-> "mgKH2PO4Needed", dose |-> "doseMlKH2PO4"],
   K   |-> [mass |-> "mgK2SO4Needed", dose |-> "doseMlK2SO4"]]

TargetOf(n) == OrElseZero(salts.input.targetsPpm[n])

\* a balancer run whose tank, recipes and other targets are valid
ValidBalancerInput ==
  /\ salts.fn \in {"part_003", "part_002"}
  /\ GtZero(salts.input.tankSizeGallons)
  /\ \A n \in {"NO3", "PO4", "K"} : GeqZero(TargetOf(n))
  /\ salts.fn = "part_003" =>
       \A r \in {"stockRecipeKNO3", "stockRecipeKH2PO4", "stockRecipeK2SO4"} :
         GtZero(salts.input[r].grams) /\ GtZero(salts.input[r].finalVolumeMl)
  /\ salts.fn = "part_002" =>
       GtZero(salts.input.stockRecipe.grams) /\ GtZero(salts.input.stockRecipe.finalVolumeMl)

\* a zero target gives a zero mass, and a zero dose where doses are computed
ZeroTargetGivesZero ==
  ValidBalancerInput =>
    \A n \in {"NO3", "PO4", "K"} :
      TargetOf(n) = Zero =>
        /\ salts.out.st = "ok"
        /\ salts.out.val[Dedicated[n].mass] = Zero
        /\ salts.fn = "part_003" => salts.out.val[Dedicated[n].dose] = Zero

\* a zero mass converts into a zero dose
ZeroMassGivesZeroDose(fn) ==
  (salts.fn = fn /\ salts.input.mgNeeded = Zero /\ GtZero(salts.input.mgPerMl))
    => salts.out = Return(Zero)

\* C13: a target of 0 (or absent) for NO3, PO4 or K gives a mass of exactly 0
\* for that nutrient's dedicated compound and a stock dose of exactly 0, and
\* nothing throws, the conversion of the zero mass into a dose included.
C13_ZeroTargetBoundary ==
  /\ ZeroTargetGivesZero
  /\ ZeroMassGivesZeroDose("part_003.doseMlFromMgAndConcentration")
  /\ ZeroMassGivesZeroDose("main.doseMlFromMgAndConcentration")
  /\ (salts.fn = "main" /\ GtZero(salts.input.tankSizeGallons)
        /\ salts.input.targetPpmIncrease = Zero /\ salts.input.n # "Fe")
       => salts.out.st = "ok" /\ salts.out.val.mlDose = Zero

\* the zero-target boundary holds in the script and the converter of part_003
C13_Part003Only ==
  /\ ZeroTargetGivesZero
  /\ ZeroMassGivesZeroDose("part_003.doseMlFromMgAndConcentration")

\* ------------------------------------------------------------------ plans
EiPlanned == plan.fn = "buildEiPlan" /\ plan.out.st = "ok"

PpsPlanned == plan.fn = "buildPpsPlan" /\ plan.out.st = "ok"

\* how often day d is listed
Occurrences(days, d) == Cardinality({i \in 1..Len(days) : days[i] = d})

EventsOn(events, kind, d) ==
  Cardinality({i \in 1..Len(events) : events[i].kind = kind /\ events[i].dayOfWeek = d})

\* C14: for any schedule the events returned by buildEiEvents are
\* non-decreasing in dayOfWeek; on one day every macro event precedes every
\* micro event; the events are those of the two day lists, each with the dose
\* of its kind.
C14_EventAssemblyOrder ==
  EiPlanned =>
    LET events == plan.out.val.events
        schedule == plan.out.val.schedule
        days == {events[i].dayOfWeek : i \in 1..Len(events)}
    IN /\ Len(events) = Len(schedule.macroDays) + Len(schedule.microDays)
       /\ \A i, j \in 1..Len(events) :
            i < j =>
              /\ events[i].dayOfWeek <= events[j].dayOfWeek
              /\ (events[i].dayOfWeek = events[j].dayOfWeek /\ events[i].kind = "micro")
                   => events[j].kind = "micro"
       /\ \A d \in days :
            /\ EventsOn(events, "macro", d) = Occurrences(schedule.macroDays, d)
            /\ EventsOn(events, "micro", d) = Occurrences(schedule.microDays, d)
       /\ \A i \in 1..Len(events) :
            events[i].ml = IF events[i].kind = "macro" THEN plan.out.val.macroMlPerDose
                           ELSE plan.out.val.microMlPerDose

\* a plan for unsorted day lists that share a day
C14_Witness ==
  /\ EiPlanned
  /\ plan.input.schedule = EiSchedule(<<3, 1>>, <<3, 1>>, 1)
  /\ [i \in 1..4 |-> <<plan.out.val.events[i].dayOfWeek, plan.out.val.events[i].kind>>]
       = << <<1, "macro">>, <<1, "micro">>, <<3, "macro">>, <<3, "micro">> >>

IsManual(solution) == solution.kind = "manual_ml_per_10g"

\* a solution a plan can be built from: a positive manual rate, or a positive
\* reference dose whose label has the anchor nutrient
Usable(solution, anchor) ==
  \/ IsManual(solution) /\ GtZero(solution.mlPer10Gallons)
  \/ /\ solution.kind = "ppm_per_reference_dose"
     /\ GtZero(solution.referenceTankGallons) /\ GtZero(solution.referenceDoseMl)
     /\ GtZero(Lookup(solution.ppmAtReference, anchor))

\* a builder call whose tank, doses per week and two solutions are usable
UsablePlanInput ==
  /\ plan.fn # "none"
  /\ GtZero(plan.input.tankGallons)
  /\ plan.fn = "buildPpsPlan" => plan.input.dosesPerWeek >= 1
  /\ Usable(plan.input.macroSolution, "NO3")
  /\ Usable(plan.input.microSolution, "Fe")

ManualDose(solution) ==
  FMul(solution.mlPer10Gallons, FDiv(plan.input.tankGallons, Ten))

ImpliedMacro ==
  IF plan.fn = "buildPpsPlan" THEN plan.out.val.impliedMacroPpm
  ELSE plan.out.val.impliedMacroPpmPerDose

ImpliedMicro ==
  IF plan.fn = "buildPpsPlan" THEN plan.out.val.impliedMicroPpm
  ELSE plan.out.val.impliedMicroPpmPerDose

\* the manual-rate branch, for the builders named in fns
ManualRateBranch(fns) ==
  (UsablePlanInput /\ plan.fn \in fns) =>
    /\ IsManual(plan.input.macroSolution) =>
         /\ plan.out.st = "ok"
         /\ plan.out.val.macroMlPerDose = ManualDose(plan.input.macroSolution)
         /\ ImpliedMacro = undefined
    /\ IsManual(plan.input.microSolution) =>
         /\ plan.out.st = "ok"
         /\ plan.out.val.microMlPerDose = ManualDose(plan.input.microSolution)
         /\ ImpliedMicro = undefined

\* C15: in buildPpsPlan and in buildEiPlan, for the macro and for the micro
\* solution independently, a manual-rate solution gives a plan whose dose is
\* mlPer10Gallons * (tankGallons / 10) and whose implied ppm field is
\* undefined; no anchor is solved.
C15_ManualRateBranch == ManualRateBranch({"buildPpsPlan", "buildEiPlan"})

\* the manual-rate branch as buildEiPlan has it
C15_EiOnly == ManualRateBranch({"buildEiPlan"})

\* an EI plan with a manual macro rate and an anchor-solved micro dose
C15_EiWitness ==
  /\ EiPlanned /\ UsablePlanInput
  /\ IsManual(plan.input.macroSolution) /\ ~IsManual(plan.input.microSolution)
  /\ ImpliedMacro = undefined /\ ImpliedMicro # undefined

EventDays(kind) ==
  {plan.out.val.events[i].dayOfWeek :
     i \in {j \in 1..Len(plan.out.val.events) : plan.out.val.events[j].kind = kind}}

UsesDefaultSchedule == plan.input.schedule \in {NoSchedule, DEFAULT_EI_SCHEDULE}

\* C16: every dose event of every plan buildEiPlan returns, for the default
\* and for any caller-supplied schedule, has a dayOfWeek in 0..6.
C16_EventDaysInWeek ==
  EiPlanned => (EventDays("macro") \cup EventDays("micro")) \subseteq 0..6

\* the days of the default schedule are in the week
C16_DefaultScheduleOnly ==
  (EiPlanned /\ UsesDefaultSchedule)
    => (EventDays("macro") \cup EventDays("micro")) \subseteq 0..6

\* C17: in every plan buildEiPlan returns the macro days and the micro days
\* do not overlap and no event falls on the water change day.
C17_DaysDisjoint ==
  EiPlanned =>
    /\ EventDays("macro") \cap EventDays("micro") = {}
    /\ plan.out.val.schedule.waterChangeDay \notin (EventDays("macro") \cup EventDays("micro"))

\* the default schedule keeps macro, micro and water change days apart
C17_DefaultScheduleOnly ==
  (EiPlanned /\ UsesDefaultSchedule) =>
    /\ EventDays("macro") = {1, 3, 5} /\ EventDays("micro") = {2, 4, 6}
    /\ plan.out.val.schedule.waterChangeDay = 0

NonPositiveRate(solution) == IsManual(solution) /\ LeqZero(solution.mlPer10Gallons)

NonPositivePlanInput ==
  \/ LeqZero(plan.input.tankGallons)
  \/ NonPositiveRate(plan.input.macroSolution)
  \/ NonPositiveRate(plan.input.microSolution)
  \/ plan.fn = "buildPpsPlan" /\ plan.input.dosesPerWeek <= 0

PositiveFinite(x) == IsFinite(x) /\ GtZero(x)

\* C18: buildEiPlan and buildPpsPlan return no plan when tankGallons, a manual
\* mlPer10Gallons or dosesPerWeek is <= 0 (the claim: they fail with a
\* validation error; here: they fail at all), and every plan they return has
\* finite, strictly positive macro and micro doses.
C18_NoPlanForNonPositiveInput ==
  plan.fn # "none" =>
    /\ NonPositivePlanInput => plan.out.st = "throw"
    /\ plan.out.st = "ok" =>
         /\ PositiveFinite(plan.out.val.macroMlPerDose)
         /\ PositiveFinite(plan.out.val.microMlPerDose)

\* what the builders do reject: a non-positive tank
C18_TankOnly ==
  (plan.fn # "none" /\ LeqZero(plan.input.tankGallons)) => plan.out.st = "throw"

\* a PPS plan returned for zero doses per week
C18_PpsZeroDosesPlanned ==
  PpsPlanned /\ plan.input.dosesPerWeek = 0 /\ ~IsFinite(plan.out.val.macroMlPerDose)

\* an EI plan returned for a negative manual rate
C18_EiNegativeRatePlanned ==
  EiPlanned /\ NonPositiveRate(plan.input.microSolution)
    /\ LtZero(plan.out.val.microMlPerDose)

\* ------------------------------------------------- dry salts, missing data
\* C19: a positive target for Fe, which no compound provides, makes the
\* dry-salt balancer fail (the claim: with a missing-data error; here: fail at
\* all) instead of being ignored.
C19_UnprovidedNutrientFails ==
  (salts.fn \in {"part_003", "part_002"} /\ GtZero(salts.input.tankSizeGallons)
     /\ GtZero(salts.input.targetsPpm.Fe))
    => salts.out.st = "throw"

\* sizing one compound for a nutrient it does not provide is a missing-data error
C19_SingleCompoundOnly ==
  (salts.fn = "main" /\ salts.input.n = "Fe" /\ GtZero(salts.input.tankSizeGallons)
     /\ GtZero(salts.input.targetPpmIncrease))
    => Threw(salts.out, MissingDataErrors)

\* ------------------------------------------------------ PPS and EI copies
SameOutcome(a, b) ==
  \/ a.st = "ok" /\ b.st = "ok" /\ a.val = b.val
  \/ a.st = "throw" /\ b.st = "throw"

\* the solver call of the session, made to the PPS solver and to the EI solver
SolvedByPps ==
  solveMlPerDoseFromAnchor(
    [tankGallons |-> solved.tankGallons, normalized |-> normalized.val,
     targetPpmPerDose |-> solved.targetPpm, anchor |-> solved.nutrient])

SolvedByEi ==
  solveDoseMlForTargetPpm(
    [tankGallons |-> solved.tankGallons, normalized |-> normalized.val,
     targetPpm |-> solved.targetPpm, nutrient |-> solved.nutrient])

\* the projector call of the session, made to the PPS and to the EI projector
ProjectedByPps ==
  impliedPpmFromDose(
    [tankGallons |-> implied.tankGallons, normalized |-> normalized.val,
     doseMl |-> implied.doseMl])

ProjectedByEi ==
  ppmFromDose(
    [tankGallons |-> implied.tankGallons, normalized |-> normalized.val,
     doseMl |-> implied.doseMl])

\* C20: the PPS solver and the EI solver give the same outcome (the same dose,
\* or both fail) for every input, and so do the PPS projector and the EI
\* projector, also at a target ppm of 0 and at a dose of 0.
C20_SameOutcome ==
  /\ solved.fn # "none" =>
       /\ solved.out = (IF solved.fn = "solveMlPerDoseFromAnchor" THEN SolvedByPps
                        ELSE SolvedByEi)
       /\ SameOutcome(SolvedByPps, SolvedByEi)
  /\ implied.fn # "none" =>
       /\ implied.out = (IF implied.fn = "impliedPpmFromDose" THEN ProjectedByPps
                         ELSE ProjectedByEi)
       /\ SameOutcome(ProjectedByPps, ProjectedByEi)

\* away from a target of 0 and a dose of 0 the two copies agree
C20_AwayFromZero ==
  /\ (solved.fn # "none" /\ solved.targetPpm # Zero) => SameOutcome(SolvedByPps, SolvedByEi)
  /\ (implied.fn # "none" /\ implied.doseMl # Zero)
       => SameOutcome(ProjectedByPps, ProjectedByEi)

\* the projectors disagree at a dose of 0
C20_ProjectorsDisagree ==
  implied.fn # "none" /\ ~SameOutcome(ProjectedByPps, ProjectedByEi)

\* a reference-dose label from which the anchor nutrient can be solved
LabelWith(solution, anchor) ==
  /\ solution.kind = "ppm_per_reference_dose"
  /\ GtZero(solution.referenceTankGallons) /\ GtZero(solution.referenceDoseMl)
  /\ GtZero(Lookup(solution.ppmAtReference, anchor))

\* a buildPpsPlan call with a positive tank, a positive integer number of doses
\* per week and two labels that carry their anchors
ScaledPlanInput ==
  /\ plan.fn = "buildPpsPlan"
  /\ GtZero(plan.input.tankGallons)
  /\ plan.input.dosesPerWeek >= 1
  /\ LabelWith(plan.input.macroSolution, "NO3")
  /\ LabelWith(plan.input.microSolution, "Fe")

\* implied per-dose ppm of the anchor times dosesPerWeek
WeeklyImplied(ppmMap, anchor) == FMul(ppmMap[anchor], FromInt(plan.input.dosesPerWeek))

\* 7 times the level's per-day target of the anchor
WeeklyTarget(anchor) == FMul(Seven, PPS_TARGETS_PER_DAY[plan.input.ppsLevel][anchor])

\* the quick test's setting: 7 doses per week, 10 gallons, the medium level
SevenDosesTenGallonsMedium ==
  /\ plan.input.dosesPerWeek = 7
  /\ plan.input.tankGallons = Ten
  /\ plan.input.ppsLevel = "medium"

\* macro dose times the normalized NO3 concentration (ppm per ml per 10 gallons)
MacroDoseTimesConcentration ==
  FMul(plan.out.val.macroMlPerDose,
       normalizeSolutionSpec(plan.input.macroSolution).val.ppmPer10g["NO3"])

\* C21 (as stated): for every level, tank size > 0 and positive integer
\* dosesPerWeek the plan's implied per-dose ppm of the anchor (NO3 of the macro
\* solution, Fe of the micro solution) times dosesPerWeek equals 7 times the
\* level's per-day target; with 7 doses per week, 10 gallons and the medium
\* level the macro dose times the normalized NO3 concentration equals 1.0 ppm.
C21_PerDoseTargetScalingExact ==
  ScaledPlanInput =>
    /\ plan.out.st = "ok"
    /\ "NO3" \in DOMAIN plan.out.val.impliedMacroPpm
    /\ "Fe" \in DOMAIN plan.out.val.impliedMicroPpm
    /\ WeeklyImplied(plan.out.val.impliedMacroPpm, "NO3") = WeeklyTarget("NO3")
    /\ WeeklyImplied(plan.out.val.impliedMicroPpm, "Fe") = WeeklyTarget("Fe")
    /\ SevenDosesTenGallonsMedium => MacroDoseTimesConcentration = One

\* C21 (amended): the same equalities hold up to rounding: the weekly implied
\* ppm of each anchor is within 8 rounding units of 7 times the per-day target,
\* and in the quick test's setting the macro dose times the normalized NO3
\* concentration is within 2 rounding units of 1.0 ppm.
C21_PerDoseTargetScaling ==
  ScaledPlanInput =>
    /\ plan.out.st = "ok"
    /\ "NO3" \in DOMAIN plan.out.val.impliedMacroPpm
    /\ "Fe" \in DOMAIN plan.out.val.impliedMicroPpm
    /\ WithinUlps(WeeklyImplied(plan.out.val.impliedMacroPpm, "NO3"), WeeklyTarget("NO3"), 8)
    /\ WithinUlps(WeeklyImplied(plan.out.val.impliedMicroPpm, "Fe"), WeeklyTarget("Fe"), 8)
    /\ SevenDosesTenGallonsMedium => WithinUlps(MacroDoseTimesConcentration, One, 2)

\* a plan for 3 gallons and 5 doses per week from a label measured in 20
\* gallons, both anchors projected
C21_Witness ==
  /\ ScaledPlanInput
  /\ plan.out.st = "ok"
  /\ plan.input.tankGallons = FromInt(3)
  /\ plan.input.dosesPerWeek = 5
  /\ plan.input.macroSolution.referenceTankGallons = FromInt(20)
  /\ "NO3" \in DOMAIN plan.out.val.impliedMacroPpm
  /\ "Fe" \in DOMAIN plan.out.val.impliedMicroPpm

\* the exact equalities do hold for some plans: the quick test's
C21_ExactInQuickTest ==
  /\ ScaledPlanInput
  /\ plan.out.st = "ok"
  /\ SevenDosesTenGallonsMedium
  /\ WeeklyImplied(plan.out.val.impliedMacroPpm, "NO3") = WeeklyTarget("NO3")
  /\ MacroDoseTimesConcentration = One

\* the days of a sequence are strictly increasing
StrictlyIncreasing(days) == \A i \in 1..(Len(days) - 1) : days[i] < days[i + 1]

\* two doses of a sequence land on the same day
SharesADay(days) == \E i, j \in 1..Len(days) : i # j /\ days[i] = days[j]

\* C22: for every integer dosesPerWeek n with 1 <= n <= 7 the day indices
\* floor(i*7/n) of the plan built by buildPpsPlan are strictly increasing (no
\* two doses on one day), for n = 7 they are exactly 0,1,2,3,4,5,6, and for
\* n > 7 at least two doses share a day.
C22_EvenSpread ==
  (PpsPlanned /\ plan.input.dosesPerWeek >= 1) =>
    LET n == plan.input.dosesPerWeek
        days == plan.out.val.daysOfWeek
    IN /\ Len(days) = n
       /\ n <= 7 => StrictlyIncreasing(days) /\ ~SharesADay(days)
       /\ n = 7 => days = <<0, 1, 2, 3, 4, 5, 6>>
       /\ n > 7 => SharesADay(days)

\* a plan of five doses per week: Sunday, Monday, Tuesday, Thursday, Friday
C22_Witness ==
  /\ PpsPlanned
  /\ plan.input.dosesPerWeek = 5
  /\ plan.out.val.daysOfWeek = <<0, 1, 2, 4, 5>>

\* a plan of eight doses per week, the first two on Sunday
C22_EightDosesCollide ==
  /\ PpsPlanned
  /\ plan.input.dosesPerWeek = 8
  /\ plan.out.val.daysOfWeek[1] = plan.out.val.daysOfWeek[2]

====
